---- MODULE Spec2Model ----
(***************************************************************************)
(* fs-access: access / accessSync (src/mod.ts) and isExecutable /          *)
(* isExecutableSync (src/is_executable.ts) run against one path of a       *)
(* filesystem.  A call is a chain of runtime primitives (stat, open,       *)
(* close, readDir, writeTextFile, remove, permissions.query,               *)
(* Command.output); every primitive is one step, and the control flow      *)
(* between two primitives is the code of the function that issued them.    *)
(***************************************************************************)
EXTENDS Integers, Sequences, FiniteSets, TLC

VARIABLES
    fs,         \* the entry the path names: kind, permissions, directory contents
    host,       \* Deno.build.os, the "run" permission state, the `test` utility
    now,        \* the clock Date.now() reads
    openFiles,  \* file handles opened and not yet closed
    path,       \* the path argument, a sequence of characters
    calls       \* the calls, by slot

vars == <<fs, host, now, openFiles, path, calls>>

----------------------------------------------------------------------------
(* Bounds of the model *)

MaxCalls == 2
MaxTime == 2
MaxEntries == 1
MaxMode == 4

----------------------------------------------------------------------------
(* AccessMode *)

F_OK == 0
R_OK == 4
W_OK == 2
X_OK == 1

\* An optional `mode` argument: <<>> when omitted, <<m>> when given.
Modes == {<<>>} \cup {<<m>> : m \in 0..MaxMode}

AccessMode2StringSwapped(mode) ==
    IF mode = <<>> THEN ""
    ELSE CASE mode[1] = F_OK -> "Exists"
           [] mode[1] = R_OK -> "Writable"
           [] mode[1] = W_OK -> "Readable"
           [] mode[1] = X_OK -> "Executable"
           [] OTHER -> ""

AccessMode2String(mode) ==
    IF mode = <<>> THEN ""
    ELSE CASE mode[1] = F_OK -> "Exists"
           [] mode[1] = R_OK -> "Readable"
           [] mode[1] = W_OK -> "Writable"
           [] mode[1] = X_OK -> "Executable"
           [] OTHER -> ""

----------------------------------------------------------------------------
(* Strings: a path is a sequence of one-character strings *)

Paths == { <<"a", ".", "C", "M", "D">>, <<"a", ".", "s", "h">>, <<"c", "o", "m">> }

toLowerCaseChar(ch) ==
    CASE ch = "C" -> "c"
      [] ch = "M" -> "m"
      [] ch = "D" -> "d"
      [] OTHER -> ch

toLowerCase(s) == [k \in 1..Len(s) |-> toLowerCaseChar(s[k])]

endsWith(s, ext) ==
    /\ Len(s) >= Len(ext)
    /\ SubSeq(s, Len(s) - Len(ext) + 1, Len(s)) = ext

execExtensions ==
    << <<".", "e", "x", "e">>, <<".", "c", "m", "d">>,
       <<".", "b", "a", "t">>, <<".", "c", "o", "m">> >>

\* execExtensions.some((ext) => path.toString().toLowerCase().endsWith(ext))
hasExecExtension(p) ==
    \E k \in 1..Len(execExtensions) : endsWith(toLowerCase(p), execExtensions[k])

----------------------------------------------------------------------------
(* Errors and outcomes *)

NoError == [name |-> "none", message |-> <<>>]

\* An error a runtime primitive raises: Deno.errors.NotFound,
\* Deno.errors.PermissionDenied, or any other failure (an I/O error).
DenoError(name, op) == [name |-> name, message |-> <<op>>]

\* new Error(message)
Error(message) == [name |-> "Error", message |-> message]

NoOutcome == [kind |-> "none", message |-> <<>>, cause |-> NoError]
Success == [kind |-> "ok", message |-> <<>>, cause |-> NoError]

ENOENT(p) == <<"ENOENT: no such file or directory, access '">> \o p \o <<"'">>
EACCES(name, p) == <<"EACCES: permission denied, ", name, " '">> \o p \o <<"'">>
ExecuteDenied(p) == <<"EACCES: permission denied, execute '">> \o p \o <<"'">>

----------------------------------------------------------------------------
(* Runtime primitives.  Each yields [ok, err, val, code, fs, open]: whether *)
(* it succeeded, the error raised, the value returned, and the filesystem  *)
(* and handle count it leaves.                                             *)

Raise(w, name, op) ==
    [ok |-> FALSE, err |-> DenoError(name, op), val |-> name, code |-> 255,
     fs |-> w.fs, open |-> w.open]

Yield(w, val) ==
    [ok |-> TRUE, err |-> NoError, val |-> val, code |-> 255,
     fs |-> w.fs, open |-> w.open]

\* Deno.stat / Deno.statSync
Stat(w) ==
    IF w.fs.fault THEN Raise(w, "Other", "stat")
    ELSE IF w.fs.kind = "absent" THEN Raise(w, "NotFound", "stat")
    ELSE Yield(w, w.fs.kind)

\* Deno.open / Deno.openSync with { read: true } or { write: true }
Open(w, flag) ==
    LET op == IF flag = "read" THEN "open_r" ELSE "open_w" IN
    IF w.fs.fault THEN Raise(w, "Other", op)
    ELSE IF w.fs.kind = "absent" THEN Raise(w, "NotFound", op)
    ELSE IF w.fs.kind # "file" /\ flag = "write" THEN Raise(w, "Other", op)
    ELSE IF flag = "read" /\ ~w.fs.r THEN Raise(w, "PermissionDenied", op)
    ELSE IF flag = "write" /\ ~w.fs.w THEN Raise(w, "PermissionDenied", op)
    ELSE [Yield(w, "file") EXCEPT !.open = w.open + 1]

\* file.close()
Close(w) == [Yield(w, "closed") EXCEPT !.open = w.open - 1]

\* Deno.readDir(path)[Symbol.asyncIterator]().next() / Deno.readDirSync(path).next():
\* the listing is read, then the first entry (or the end) is fetched.  The
\* iterator is dropped after that one fetch; it holds no handle of its own.
ReadDir(w) ==
    IF w.fs.fault THEN Raise(w, "Other", "readDir")
    ELSE IF w.fs.kind = "absent" THEN Raise(w, "NotFound", "readDir")
    ELSE IF w.fs.kind # "dir" THEN Raise(w, "Other", "readDir")
    ELSE IF ~w.fs.r THEN Raise(w, "PermissionDenied", "readDir")
    ELSE Yield(w, IF w.fs.entries + Cardinality(w.fs.scratch) > 0
                  THEN "entry" ELSE "empty")

\* Deno.writeTextFile(tempPath, "") / Deno.writeTextFileSync(tempPath, "")
WriteTextFile(w, ts) ==
    IF w.fs.fault THEN Raise(w, "Other", "writeTextFile")
    ELSE IF w.fs.kind = "absent" THEN Raise(w, "NotFound", "writeTextFile")
    ELSE IF w.fs.kind # "dir" THEN Raise(w, "Other", "writeTextFile")
    ELSE IF ~w.fs.w THEN Raise(w, "PermissionDenied", "writeTextFile")
    ELSE [Yield(w, "written") EXCEPT !.fs.scratch = w.fs.scratch \cup {ts}]

\* Deno.remove(tempPath) / Deno.removeSync(tempPath)
Remove(w, ts) ==
    IF w.fs.fault THEN Raise(w, "Other", "remove")
    ELSE IF w.fs.kind = "absent" THEN Raise(w, "NotFound", "remove")
    ELSE IF w.fs.kind # "dir" THEN Raise(w, "Other", "remove")
    ELSE IF ts \notin w.fs.scratch THEN Raise(w, "NotFound", "remove")
    ELSE IF ~w.fs.w THEN Raise(w, "PermissionDenied", "remove")
    ELSE [Yield(w, "removed") EXCEPT !.fs.scratch = w.fs.scratch \ {ts}]

\* Deno.permissions.query / querySync ({ name: "run", command: path })
Query(w) == Yield(w, w.host.runPerm)

\* new Deno.Command("test", { args: ["-x", path] }).output() / outputSync():
\* raises NotFound when the `test` utility cannot be found, else runs it.
Spawn(w) ==
    IF w.host.testBin = "missing" THEN Raise(w, "NotFound", "Command.output")
    ELSE [Yield(w, "exited") EXCEPT
            !.code = IF w.fs.kind = "file" /\ w.fs.x /\ ~w.fs.fault THEN 0 ELSE 1]

\* The primitive a call issues at each position.
Primitive(c, w) ==
    CASE c.pc \in {"stat", "x_stat"} -> Stat(w)
      [] c.pc = "open_r" -> Open(w, "read")
      [] c.pc = "open_w" -> Open(w, "write")
      [] c.pc = "close" -> Close(w)
      [] c.pc = "readdir" -> ReadDir(w)
      [] c.pc = "write" -> WriteTextFile(w, c.temp)
      [] c.pc = "remove" -> Remove(w, c.temp)
      [] c.pc = "x_query" -> Query(w)
      [] c.pc = "x_spawn" -> Spawn(w)

OpName(pc) ==
    CASE pc \in {"stat", "x_stat"} -> "stat"
      [] pc \in {"open_r", "open_w"} -> pc
      [] pc = "close" -> "close"
      [] pc = "readdir" -> "readDir"
      [] pc = "write" -> "writeTextFile"
      [] pc = "remove" -> "remove"
      [] pc = "x_query" -> "permissions.query"
      [] pc = "x_spawn" -> "Command.output"

\* What a step leaves in the call's trace: the primitive and how it ended.
Event(pc, r) ==
    <<OpName(pc), IF pc = "x_spawn" /\ r.ok THEN (IF r.code = 0 THEN "0" ELSE "1") ELSE r.val>>

----------------------------------------------------------------------------
(* Calls *)

AccessFns == {"accessSync", "access"}
ProbeFns == {"isExecutableSync", "isExecutable"}
ProbePcs == {"x_stat", "x_query", "x_spawn"}

Idle ==
    [fn |-> "none", mode |-> <<>>, pc |-> "idle", temp |-> 0, trace |-> <<>>,
     out |-> NoOutcome, dir0 |-> [entries |-> 0, scratch |-> {}]]

NewCall(fn, mode) ==
    [Idle EXCEPT !.fn = fn, !.mode = mode,
                 !.pc = IF fn \in ProbeFns THEN "x_stat" ELSE "stat",
                 !.dir0 = [entries |-> fs.entries, scratch |-> fs.scratch]]

Finish(c, out) == [c EXCEPT !.pc = "done", !.out = out]
Goto(c, pc) == [c EXCEPT !.pc = pc]

\* What isExecutable / isExecutableSync do after a primitive: go on to the
\* next primitive, return a boolean, or let the primitive's error propagate.
Await(pc) == [tag |-> "await", pc |-> pc, value |-> FALSE, err |-> NoError]
Return(b) == [tag |-> "return", pc |-> "done", value |-> b, err |-> NoError]
Throw(e) == [tag |-> "throw", pc |-> "done", value |-> FALSE, err |-> e]

----------------------------------------------------------------------------
(* src/is_executable.ts *)

isExecutableSync(c, r, w) ==
    CASE c.pc = "x_stat" ->
           IF ~r.ok THEN Throw(r.err)
           ELSE IF r.val # "file" THEN Return(FALSE)
           ELSE IF w.host.os = "windows" THEN Return(hasExecExtension(w.path))
           ELSE Await("x_query")
      [] c.pc = "x_query" ->
           IF r.val # "granted" THEN Return(FALSE) ELSE Await("x_spawn")
      [] c.pc = "x_spawn" ->
           IF ~r.ok THEN Throw(r.err) ELSE Return(r.code = 0)

isExecutableUnlessDenied(c, r, w) ==
    CASE c.pc = "x_stat" ->
           IF ~r.ok THEN Throw(r.err)
           ELSE IF r.val # "file" THEN Return(FALSE)
           ELSE IF w.host.os = "windows" THEN Return(hasExecExtension(w.path))
           ELSE Await("x_query")
      [] c.pc = "x_query" ->
           IF r.val = "denied" THEN Return(FALSE) ELSE Await("x_spawn")
      [] c.pc = "x_spawn" ->
           IF ~r.ok THEN Throw(r.err) ELSE Return(r.code = 0)

isExecutable(c, r, w) ==
    CASE c.pc = "x_stat" ->
           IF ~r.ok THEN Throw(r.err)
           ELSE IF r.val # "file" THEN Return(FALSE)
           ELSE IF w.host.os = "windows" THEN Return(hasExecExtension(w.path))
           ELSE Await("x_query")
      [] c.pc = "x_query" ->
           IF r.val # "granted" THEN Return(FALSE) ELSE Await("x_spawn")
      [] c.pc = "x_spawn" ->
           IF ~r.ok THEN Throw(r.err) ELSE Return(r.code = 0)

\* A direct call of the probe: its boolean or its exception is the outcome.
ProbeOutcome(c, p) ==
    CASE p.tag = "await" -> Goto(c, p.pc)
      [] p.tag = "return" ->
           Finish(c, [kind |-> IF p.value THEN "true" ELSE "false",
                      message |-> <<>>, cause |-> NoError])
      [] p.tag = "throw" ->
           Finish(c, [kind |-> "thrown", message |-> p.err.message, cause |-> p.err])

----------------------------------------------------------------------------
(* src/mod.ts: accessSync *)

accessSyncCatchAlwaysDenied(error, mode, p) ==
    [kind |-> "PERMISSION_DENIED",
     message |-> EACCES(AccessMode2String(mode), p), cause |-> error]

\* catch (error) { ... }
accessSyncCatch(error, mode, p) ==
    IF error.name = "NotFound"
    THEN [kind |-> "NOT_FOUND", message |-> ENOENT(p), cause |-> error]
    ELSE [kind |-> "PERMISSION_DENIED",
          message |-> EACCES(AccessMode2String(mode), p), cause |-> error]

accessSyncSwitchSkipsDirectories(m, isFile, isDirectory) ==
    CASE m = R_OK -> IF isFile THEN "open_r" ELSE "done"
      [] m = W_OK -> IF isFile THEN "open_w" ELSE IF isDirectory THEN "write" ELSE "done"
      [] m = X_OK -> IF isDirectory THEN "readdir" ELSE IF isFile THEN "x_stat" ELSE "done"
      [] OTHER -> "done"

\* switch (mode) { ... }: the first primitive of the probe, or "done" for none
accessSyncSwitch(m, isFile, isDirectory) ==
    CASE m = R_OK -> IF isFile THEN "open_r" ELSE IF isDirectory THEN "readdir" ELSE "done"
      [] m = W_OK -> IF isFile THEN "open_w" ELSE IF isDirectory THEN "write" ELSE "done"
      [] m = X_OK -> IF isDirectory THEN "readdir" ELSE IF isFile THEN "x_stat" ELSE "done"
      [] OTHER -> "done"

accessSyncAfterWriteKeepsFile == "done"

\* Deno.writeTextFileSync(tempPath, ""); Deno.removeSync(tempPath);
accessSyncAfterWrite == "remove"

accessSync(c, r, w) ==
    LET caught(e) == Finish(c, accessSyncCatch(e, c.mode, w.path)) IN
    CASE c.pc = "stat" ->
           IF ~r.ok THEN caught(r.err)
           ELSE IF c.mode = <<>> THEN Finish(c, Success)
           ELSE LET next == accessSyncSwitch(c.mode[1], r.val = "file", r.val = "dir") IN
                IF next = "done" THEN Finish(c, Success)
                ELSE [c EXCEPT !.pc = next,
                               !.temp = IF next = "write" THEN w.now ELSE 0]
      [] c.pc \in {"open_r", "open_w"} ->
           IF ~r.ok THEN caught(r.err) ELSE Goto(c, "close")
      [] c.pc = "close" -> Finish(c, Success)
      [] c.pc = "readdir" -> IF ~r.ok THEN caught(r.err) ELSE Finish(c, Success)
      [] c.pc = "write" ->
           IF ~r.ok THEN caught(r.err)
           ELSE IF accessSyncAfterWrite = "done" THEN Finish(c, Success)
           ELSE Goto(c, accessSyncAfterWrite)
      [] c.pc = "remove" -> IF ~r.ok THEN caught(r.err) ELSE Finish(c, Success)
      [] c.pc \in ProbePcs ->
           LET p == isExecutableSync(c, r, w) IN
           CASE p.tag = "await" -> Goto(c, p.pc)
             [] p.tag = "throw" -> caught(p.err)
             [] p.tag = "return" ->
                  IF ~p.value THEN caught(Error(ExecuteDenied(w.path)))
                  ELSE Finish(c, Success)

----------------------------------------------------------------------------
(* src/mod.ts: access *)

accessCatch(error, mode, p) ==
    IF error.name = "NotFound"
    THEN [kind |-> "NOT_FOUND", message |-> ENOENT(p), cause |-> error]
    ELSE [kind |-> "PERMISSION_DENIED",
          message |-> EACCES(AccessMode2String(mode), p), cause |-> error]

accessSwitchProbesOnExistence(m, isFile, isDirectory) ==
    CASE m = R_OK \/ m = F_OK ->
           IF isFile THEN "open_r" ELSE IF isDirectory THEN "readdir" ELSE "done"
      [] m = W_OK -> IF isFile THEN "open_w" ELSE IF isDirectory THEN "write" ELSE "done"
      [] m = X_OK -> IF isDirectory THEN "readdir" ELSE IF isFile THEN "x_stat" ELSE "done"
      [] OTHER -> "done"

accessSwitch(m, isFile, isDirectory) ==
    CASE m = R_OK -> IF isFile THEN "open_r" ELSE IF isDirectory THEN "readdir" ELSE "done"
      [] m = W_OK -> IF isFile THEN "open_w" ELSE IF isDirectory THEN "write" ELSE "done"
      [] m = X_OK -> IF isDirectory THEN "readdir" ELSE IF isFile THEN "x_stat" ELSE "done"
      [] OTHER -> "done"

accessAfterWriteKeepsFile == "done"

\* await Deno.writeTextFile(tempPath, "").then(() => Deno.remove(tempPath));
accessAfterWrite == "remove"

access(c, r, w) ==
    LET caught(e) == Finish(c, accessCatch(e, c.mode, w.path)) IN
    CASE c.pc = "stat" ->
           IF ~r.ok THEN caught(r.err)
           ELSE IF c.mode = <<>> THEN Finish(c, Success)
           ELSE LET next == accessSwitch(c.mode[1], r.val = "file", r.val = "dir") IN
                IF next = "done" THEN Finish(c, Success)
                ELSE [c EXCEPT !.pc = next,
                               !.temp = IF next = "write" THEN w.now ELSE 0]
      [] c.pc \in {"open_r", "open_w"} ->
           IF ~r.ok THEN caught(r.err) ELSE Goto(c, "close")
      [] c.pc = "close" -> Finish(c, Success)
      [] c.pc = "readdir" -> IF ~r.ok THEN caught(r.err) ELSE Finish(c, Success)
      [] c.pc = "write" ->
           IF ~r.ok THEN caught(r.err)
           ELSE IF accessAfterWrite = "done" THEN Finish(c, Success)
           ELSE Goto(c, accessAfterWrite)
      [] c.pc = "remove" -> IF ~r.ok THEN caught(r.err) ELSE Finish(c, Success)
      [] c.pc \in ProbePcs ->
           LET p == isExecutable(c, r, w) IN
           CASE p.tag = "await" -> Goto(c, p.pc)
             [] p.tag = "throw" -> caught(p.err)
             [] p.tag = "return" ->
                  IF ~p.value THEN caught(Error(ExecuteDenied(w.path)))
                  ELSE Finish(c, Success)

----------------------------------------------------------------------------
(* One step of a call: its primitive, then the function's own code up to   *)
(* the next primitive or to the outcome.                                   *)

Continue(c, r, w) ==
    CASE c.fn = "accessSync" -> accessSync(c, r, w)
      [] c.fn = "access" -> access(c, r, w)
      [] c.fn = "isExecutableSync" -> ProbeOutcome(c, isExecutableSync(c, r, w))
      [] c.fn = "isExecutable" -> ProbeOutcome(c, isExecutable(c, r, w))

StepOf(c, w) ==
    LET r == Primitive(c, w)
        d == Continue(c, r, w)
    IN [c |-> [d EXCEPT !.trace = Append(c.trace, Event(c.pc, r))],
        fs |-> r.fs, open |-> r.open]

World == [fs |-> fs, host |-> host, now |-> now, open |-> openFiles, path |-> path]

Slots == 1..MaxCalls

\* Call i performs the primitive it stands at and runs on to the next one.
Perform(i) ==
    LET s == StepOf(calls[i], World) IN
      /\ calls' = [calls EXCEPT ![i] = s.c]
      /\ fs' = s.fs
      /\ openFiles' = s.open
      /\ UNCHANGED <<host, now, path>>

DoStat == \E i \in Slots : calls[i].pc = "stat" /\ Perform(i)
DoOpen == \E i \in Slots : calls[i].pc \in {"open_r", "open_w"} /\ Perform(i)
DoClose == \E i \in Slots : calls[i].pc = "close" /\ Perform(i)
DoReadDir == \E i \in Slots : calls[i].pc = "readdir" /\ Perform(i)
DoWriteTextFile == \E i \in Slots : calls[i].pc = "write" /\ Perform(i)
DoRemove == \E i \in Slots : calls[i].pc = "remove" /\ Perform(i)
DoProbeStat == \E i \in Slots : calls[i].pc = "x_stat" /\ Perform(i)
DoQuery == \E i \in Slots : calls[i].pc = "x_query" /\ Perform(i)
DoSpawn == \E i \in Slots : calls[i].pc = "x_spawn" /\ Perform(i)

Quiet == \A i \in Slots : calls[i].pc \in {"idle", "done"}

\* A caller that runs one call at a time.
Invoke ==
    /\ Quiet
    /\ \E fn \in AccessFns \cup ProbeFns, mode \in Modes :
         /\ fn \in ProbeFns => mode = <<>>
         /\ calls' = [calls EXCEPT ![1] = NewCall(fn, mode)]
    /\ UNCHANGED <<fs, host, now, openFiles, path>>

\* Callers that start non-blocking checks while others are suspended.
InvokeConcurrently ==
    /\ \E i \in Slots, mode \in {<<R_OK>>, <<W_OK>>} :
         /\ calls[i].pc = "idle"
         /\ calls' = [calls EXCEPT ![i] = NewCall("access", mode)]
    /\ UNCHANGED <<fs, host, now, openFiles, path>>

Tick ==
    /\ now < MaxTime
    /\ now' = now + 1
    /\ UNCHANGED <<fs, host, openFiles, path, calls>>

----------------------------------------------------------------------------
(* The rest of the system acting on the path between two steps of a call.  *)
(* What it does before a call starts is one of the initial states.         *)

Chmod ==
    /\ ~Quiet
    /\ fs.kind # "absent"
    /\ \E bit \in {"r", "w", "x"} : fs' = [fs EXCEPT ![bit] = ~fs[bit]]
    /\ UNCHANGED <<host, now, openFiles, path, calls>>

Unlink ==
    /\ ~Quiet
    /\ fs.kind # "absent"
    /\ fs' = [fs EXCEPT !.kind = "absent", !.r = FALSE, !.w = FALSE, !.x = FALSE,
                        !.entries = 0, !.scratch = {}]
    /\ UNCHANGED <<host, now, openFiles, path, calls>>

Create ==
    /\ ~Quiet
    /\ fs.kind = "absent"
    /\ \E k \in {"file", "dir", "other"} :
         fs' = [fs EXCEPT !.kind = k, !.r = TRUE, !.w = TRUE, !.x = TRUE]
    /\ UNCHANGED <<host, now, openFiles, path, calls>>

IoFault ==
    /\ ~Quiet
    /\ fs' = [fs EXCEPT !.fault = ~fs.fault]
    /\ UNCHANGED <<host, now, openFiles, path, calls>>

----------------------------------------------------------------------------
(* Specifications *)

FsStates ==
    { f \in [kind : {"absent", "file", "dir", "other"}, r : BOOLEAN, w : BOOLEAN,
             x : BOOLEAN, entries : 0..MaxEntries, scratch : {{}}, fault : BOOLEAN] :
        /\ f.kind = "absent" => ~f.r /\ ~f.w /\ ~f.x
        /\ f.kind # "dir" => f.entries = 0 }

Hosts ==
    [os : {"windows", "linux"}, runPerm : {"granted", "prompt", "denied"},
     testBin : {"ok", "missing"}]

Init ==
    /\ fs \in FsStates
    /\ host \in Hosts
    /\ now = 1
    /\ openFiles = 0
    /\ path \in Paths
    /\ calls = [i \in Slots |-> Idle]

Steps ==
    \/ DoStat \/ DoOpen \/ DoClose \/ DoReadDir \/ DoWriteTextFile \/ DoRemove
    \/ DoProbeStat \/ DoQuery \/ DoSpawn

\* One call at a time on a filesystem nothing else touches.
Next == Invoke \/ Steps \/ Tick

Spec == Init /\ [][Next]_vars

\* One call at a time while the rest of the system changes the path.
NextEnv == Invoke \/ Steps \/ Chmod \/ Unlink \/ Create \/ IoFault

SpecEnv == Init /\ [][NextEnv]_vars

\* Non-blocking checks of one healthy directory, interleaved at their awaits.
InitConc ==
    /\ Init
    /\ fs.kind = "dir"
    /\ ~fs.fault
    /\ host = [os |-> "linux", runPerm |-> "granted", testBin |-> "ok"]

NextConc ==
    \/ InvokeConcurrently
    \/ DoStat \/ DoReadDir \/ DoWriteTextFile \/ DoRemove
    \/ Tick

SpecConc == InitConc /\ [][NextConc]_vars

----------------------------------------------------------------------------
(* Properties *)

Failures == {"NotFound", "PermissionDenied", "Other"}
Failed(ev) == ev[2] \in Failures
Last(c) == c.trace[Len(c.trace)]
Finished(c) == c.pc = "done"
StatFound(c) == c.trace # <<>> /\ c.trace[1][1] = "stat" /\ ~Failed(c.trace[1])
Has(c, ev) == \E k \in 1..Len(c.trace) : c.trace[k] = ev
Issued(c, op) == \E k \in 1..Len(c.trace) : c.trace[k][1] = op

\* C1: when the stat of access / accessSync reports not-found, the call ends,
\* for every mode, with NOT_FOUND and the message
\* ENOENT: no such file or directory, access '<path>', and the stat is the
\* only primitive it ran.
C1_MissingPathIsNotFound ==
    \A i \in Slots :
      LET c == calls[i] IN
      (c.fn \in AccessFns /\ c.trace # <<>> /\ c.trace[1] = <<"stat", "NotFound">>) =>
        /\ Finished(c)
        /\ c.out.kind = "NOT_FOUND"
        /\ c.out.message = <<"ENOENT: no such file or directory, access '">> \o path \o <<"'">>
        /\ Len(c.trace) = 1

C1_Witness ==
    \E i \in Slots :
      /\ calls[i].fn = "accessSync"
      /\ calls[i].mode = <<F_OK>>
      /\ calls[i].trace = << <<"stat", "NotFound">> >>
      /\ calls[i].out.kind = "NOT_FOUND"

\* C2: when the stat succeeds, a call whose mode is omitted, F_OK or any value
\* outside {0, 1, 2, 4} succeeds having run no primitive but the stat,
\* whatever the kind and permission bits of the target.
C2_ExistenceNeedsNoProbe ==
    \A i \in Slots :
      LET c == calls[i] IN
      (/\ c.fn \in AccessFns
       /\ StatFound(c)
       /\ (c.mode = <<>> \/ c.mode[1] \notin {1, 2, 4})) =>
        /\ Finished(c)
        /\ c.out.kind = "ok"
        /\ Len(c.trace) = 1

C2_Witness ==
    \E i \in Slots :
      /\ calls[i].fn = "access"
      /\ calls[i].mode = <<3>>
      /\ calls[i].trace = << <<"stat", "file">> >>
      /\ ~fs.r /\ ~fs.w /\ ~fs.x
      /\ calls[i].out.kind = "ok"

\* C3: a call of access / accessSync has an outcome exactly when it has
\* returned; a failure of the stat or of a probe that is not a not-found is
\* reported as PERMISSION_DENIED with the message
\* EACCES: permission denied, <mode-name> '<path>'; and every failure outcome
\* carries the failure that caused it.
C3_FailuresAreNormalised ==
    \A i \in Slots :
      LET c == calls[i]
          name == IF c.mode = <<>> THEN ""
                  ELSE CASE c.mode[1] = 0 -> "Exists"
                         [] c.mode[1] = 4 -> "Readable"
                         [] c.mode[1] = 2 -> "Writable"
                         [] c.mode[1] = 1 -> "Executable"
                         [] OTHER -> ""
          denied == <<"EACCES: permission denied, ", name, " '">> \o path \o <<"'">>
          execute == <<"EACCES: permission denied, execute '">> \o path \o <<"'">>
      IN
      c.fn \in AccessFns =>
        /\ Finished(c) <=> c.out.kind # "none"
        /\ c.out.kind \in {"none", "ok", "NOT_FOUND", "PERMISSION_DENIED"}
        /\ Finished(c) =>
             /\ (Failed(Last(c)) /\ Last(c)[2] # "NotFound") =>
                    c.out.kind = "PERMISSION_DENIED"
             /\ Failed(Last(c)) =>
                    /\ c.out.kind \in {"NOT_FOUND", "PERMISSION_DENIED"}
                    /\ c.out.cause = [name |-> Last(c)[2], message |-> <<Last(c)[1]>>]
             /\ c.out.kind = "PERMISSION_DENIED" => c.out.message = denied
             /\ (c.out.kind \in {"NOT_FOUND", "PERMISSION_DENIED"} /\ ~Failed(Last(c))) =>
                    c.out.cause = [name |-> "Error", message |-> execute]

C3_Witness ==
    \E i \in Slots :
      /\ calls[i].fn = "access"
      /\ calls[i].mode = <<W_OK>>
      /\ Len(calls[i].trace) = 3
      /\ calls[i].trace[3] = <<"remove", "Other">>
      /\ calls[i].out.kind = "PERMISSION_DENIED"
      /\ calls[i].out.cause.name = "Other"

\* C4: isExecutable and isExecutableSync never throw: every call of them
\* returns a boolean.
C4_ProbeNeverThrows ==
    \A i \in Slots :
      (calls[i].fn \in ProbeFns /\ Finished(calls[i])) =>
        calls[i].out.kind \in {"true", "false"}

\* C5: a W_OK check of a writable directory succeeds and leaves the directory
\* with the entries it had before the call, and whenever no call is running
\* the directory holds no scratch entry.
C5_WritableDirectoryUnchanged ==
    /\ \A i \in Slots :
         LET c == calls[i] IN
         (/\ c.fn \in AccessFns /\ c.mode = <<W_OK>> /\ Finished(c)
          /\ fs.kind = "dir" /\ fs.w /\ ~fs.fault) =>
           /\ c.out.kind = "ok"
           /\ Has(c, <<"writeTextFile", "written">>)
           /\ fs.entries = c.dir0.entries
           /\ fs.scratch = c.dir0.scratch
    /\ Quiet => fs.scratch = {}

C5_Witness ==
    \E i \in Slots :
      /\ calls[i].fn = "accessSync"
      /\ calls[i].mode = <<W_OK>>
      /\ calls[i].temp > 1
      /\ calls[i].trace =
           << <<"stat", "dir">>, <<"writeTextFile", "written">>, <<"remove", "removed">> >>
      /\ calls[i].out.kind = "ok"
      /\ fs.scratch = {}
      /\ fs.entries = MaxEntries

\* The other calling convention of a function.
Twin(fn) ==
    CASE fn = "accessSync" -> "access"
      [] fn = "access" -> "accessSync"
      [] fn = "isExecutableSync" -> "isExecutable"
      [] fn = "isExecutable" -> "isExecutableSync"

\* A call run from world w to its end with nothing in between.
RECURSIVE RunToEnd(_, _)
RunToEnd(c, w) ==
    IF c.pc = "done" THEN c
    ELSE LET s == StepOf(c, w) IN
         RunToEnd(s.c, [w EXCEPT !.fs = s.fs, !.open = s.open])

\* C6: on the same path, mode, platform and filesystem, the blocking and the
\* non-blocking form of a function issue the same primitives with the same
\* results and end with the same outcome.
C6_FormsAgree ==
    \A i \in Slots :
      LET c == calls[i] IN
      Finished(c) =>
        LET t == RunToEnd([NewCall(Twin(c.fn), c.mode) EXCEPT !.dir0 = c.dir0], World) IN
          /\ t.trace = c.trace
          /\ t.out = c.out

C6_Witness ==
    \E i \in Slots :
      /\ calls[i].fn = "accessSync"
      /\ calls[i].mode = <<X_OK>>
      /\ calls[i].trace =
           << <<"stat", "file">>, <<"stat", "file">>,
              <<"permissions.query", "granted">>, <<"Command.output", "0">> >>
      /\ calls[i].out.kind = "ok"

\* C7: when every call has returned, by success or by failure, what it
\* acquired has been released: no file handle is open and no scratch entry
\* is left in the directory.
C7_ResourcesReleased ==
    Quiet => (openFiles = 0 /\ fs.scratch = {})

\* C8: X_OK on an existing regular file succeeds exactly when the execute
\* probe is true and otherwise reports PERMISSION_DENIED; the probe is true
\* off POSIX iff the lower-cased path ends with .exe, .cmd, .bat or .com, and
\* on POSIX iff the run permission is granted and `test -x` exits with 0; with
\* the permission not granted nothing is spawned.
C8_ExecuteFollowsProbe ==
    \A i \in Slots :
      LET c == calls[i]
          suffixes == { <<".", "e", "x", "e">>, <<".", "c", "m", "d">>,
                        <<".", "b", "a", "t">>, <<".", "c", "o", "m">> }
          probe == IF host.os = "windows"
                   THEN \E ext \in suffixes : endsWith(toLowerCase(path), ext)
                   ELSE /\ Has(c, <<"permissions.query", "granted">>)
                        /\ Has(c, <<"Command.output", "0">>)
      IN
      (/\ c.fn \in AccessFns /\ c.mode = <<X_OK>> /\ Finished(c)
       /\ c.trace[1] = <<"stat", "file">>) =>
        /\ c.out.kind = "ok" <=> probe
        /\ ~probe => c.out.kind = "PERMISSION_DENIED"
        /\ (host.os # "windows" /\ ~Has(c, <<"permissions.query", "granted">>)) =>
              ~Issued(c, "Command.output")

\* C9: for an existing target, R_OK succeeds iff the read probe of its kind
\* succeeds and otherwise reports PERMISSION_DENIED: a file is opened for
\* reading and closed, a directory (under R_OK and under X_OK) has one entry
\* of its listing fetched, which succeeds when it is empty.
C9_ReadFollowsProbe ==
    \A i \in Slots :
      LET c == calls[i]
          isFile == c.trace[1] = <<"stat", "file">>
          isDirectory == c.trace[1] = <<"stat", "dir">>
      IN
      (c.fn \in AccessFns /\ Finished(c) /\ StatFound(c)) =>
        /\ (c.mode = <<R_OK>> /\ isFile) =>
             /\ Len(c.trace) >= 2 /\ c.trace[2][1] = "open_r"
             /\ c.out.kind = "ok" <=> ~Failed(c.trace[2])
             /\ c.out.kind = "ok" <=> fs.r
             /\ c.out.kind = "ok" => c.trace[Len(c.trace)] = <<"close", "closed">>
             /\ c.out.kind # "ok" => c.out.kind = "PERMISSION_DENIED" /\ Len(c.trace) = 2
        /\ (c.mode \in {<<R_OK>>, <<X_OK>>} /\ isDirectory) =>
             /\ Len(c.trace) = 2 /\ c.trace[2][1] = "readDir"
             /\ c.out.kind = "ok" <=> c.trace[2][2] \in {"entry", "empty"}
             /\ c.out.kind = "ok" <=> fs.r
             /\ c.out.kind # "ok" => c.out.kind = "PERMISSION_DENIED"
        /\ (c.mode = <<R_OK>> /\ ~isFile /\ ~isDirectory) =>
             c.out.kind = "ok" /\ Len(c.trace) = 1

C9_Witness ==
    \E i \in Slots :
      /\ calls[i].fn = "accessSync"
      /\ calls[i].mode = <<R_OK>>
      /\ calls[i].trace = << <<"stat", "dir">>, <<"readDir", "empty">> >>
      /\ calls[i].out.kind = "ok"

====
